---- MODULE Spec2Model ----
(***************************************************************************)
(* Study planner state of StudyAI/nextjs-app/app/page.tsx.                 *)
(*                                                                         *)
(* The file holds two React components with the same planner logic:        *)
(* LearnAI (lines 45-823) and StudyPlanner (lines 856-1198).  A component  *)
(* is modelled as the React state cells (studyPlan, loading, the error     *)
(* string), the snapshot of those cells that the handlers of the last      *)
(* render closed over (view), the localStorage item, and a clock.          *)
(* A handler reads `view` where the code reads the closed-over variable    *)
(* and reads the cell itself where the code uses the updater's prevPlan.   *)
(***************************************************************************)
EXTENDS Integers, Sequences, FiniteSets, TLC

VARIABLES
    component,          \* which of the two components is mounted
    mounted,            \* the first render and its effects have run
    studyPlan,          \* useState<StudyPlan | null>: the latest value of the cell
    loading,            \* useState(loading)
    studyPlannerError,  \* useState<string | null>: studyPlannerError / error
    view,               \* values of the cells captured by the last render
    dirty,              \* setStudyPlan was called since the last commit
    storage,            \* localStorage item under studyPlan_localUser123
    clock,              \* new Date()
    nextId,             \* number of ids handed out by uuidv4()
    calls,              \* number of handler invocations so far
    lastWrite,          \* outcome of the most recent localStorage.setItem
    step,               \* history: the last planner step, its inputs and outcome
    reference,          \* history: the issued mutations applied to the latest plan
    toggled,            \* history: the toggleGoal calls made in succession on one id
    page                \* LearnAI: the cells of the flashcard, quiz and study buddy tabs

vars == <<component, mounted, studyPlan, loading, studyPlannerError, view,
          dirty, storage, clock, nextId, calls, lastWrite, step, reference, toggled,
          page>>

----------------------------------------------------------------------------
(* Bounds *)

MaxGoals == 2       \* goals created by handleAddGoal in one run
MaxClock == 1       \* clock ticks in one run
MaxCalls == 3       \* handler invocations in one run
MaxRequests == 2    \* requests sent to the AI endpoints in one run

----------------------------------------------------------------------------
(* Values *)

userId == "localUser123"

localStorageKey == "studyPlan_" \o userId

null == "null"                      \* JS null of a string | null field

NullPlan == [isNull |-> TRUE]       \* JS null of StudyPlan | null

LoadErrorMsg == "Failed to load study plan from local storage."

SaveErrorMsg == "Failed to save study plan to local storage."

AddGoalErrorMsg == "Failed to add goal."

\* Text typed into the forms, as sequences of characters.
Descriptions == { <<>>, <<" ">>, <<" ", "a", " ">> }

\* Values of the <input type="date"> state handed to new Date(...).
DateInputs == { "", "2025-06-01", "not-a-date" }

\* The goal form (description, target date) at the time of a submit.
GoalForms ==
    { <<d, t>> \in Descriptions \X DateInputs :
        \/ d = <<" ", "a", " ">>
        \/ d = <<>> /\ t = ""
        \/ d = <<" ">> /\ t = "2025-06-01" }

SubjectNames == { <<" ">>, <<"B">>, <<" ", "M">> }

SubjectsToDelete == { <<"B">>, <<"b">>, <<"M">> }

ParseableDates == { "2025-06-01" }

\* Ids a handler may be called with: those handed out so far (0 is the id of
\* the stored goal) and one that no goal has yet.
GoalIds == 0..nextId

----------------------------------------------------------------------------
(* Pure helpers *)

IsSpace(c) == c = " "

RECURSIVE TrimStart(_)
TrimStart(s) ==
    IF s # <<>> /\ IsSpace(Head(s)) THEN TrimStart(Tail(s)) ELSE s

RECURSIVE TrimEnd(_)
TrimEnd(s) ==
    IF s # <<>> /\ IsSpace(s[Len(s)]) THEN TrimEnd(SubSeq(s, 1, Len(s) - 1)) ELSE s

\* A guard that tests the raw text: if (!newGoalDescription) return
NoTrim(s) == s

\* String.prototype.trim
Trim(s) == TrimEnd(TrimStart(s))

\* !isNaN(new Date(s).getTime())
IsValidDate(s) == s \in ParseableDates

\* Date.prototype.toISOString of a date-only string (parsed as UTC midnight)
toISOString(s) == s \o "T00:00:00.000Z"

\* newGoalTargetDate ? new Date(newGoalTargetDate).toISOString() : null
\* toISOString throws RangeError on an invalid date.
TargetDateOf(input) ==
    IF input = "" THEN [threw |-> FALSE, value |-> null]
    ELSE IF IsValidDate(input) THEN [threw |-> FALSE, value |-> toISOString(input)]
    ELSE [threw |-> TRUE, value |-> null]

DefaultPlan(now) ==
    [userId |-> userId, goals |-> <<>>, subjects |-> <<>>, lastUpdated |-> now]

\* prevPlan || { userId, goals: [], subjects: [], lastUpdated: now }
CurrentPlan(prevPlan, now) ==
    IF prevPlan = NullPlan THEN DefaultPlan(now) ELSE prevPlan

\* An array copy that keeps repeated elements: Array.from(xs)
NoDedupe(xs) == xs

RECURSIVE Unique(_)
\* Array.from(new Set(xs)): first occurrence of each element, in order
Unique(xs) ==
    IF xs = <<>> THEN <<>>
    ELSE LET init == Unique(SubSeq(xs, 1, Len(xs) - 1))
             last == xs[Len(xs)]
         IN IF \E i \in 1..Len(init) : init[i] = last THEN init ELSE Append(init, last)

----------------------------------------------------------------------------
(* JSON text of a plan: the fields in key order *)

\* A serialiser that leaves the target date out
StringifyGoalWithoutDate(g) == <<g.id, g.description, null, g.completed>>

StringifyGoal(g) == <<g.id, g.description, g.targetDate, g.completed>>

Stringify(p) ==
    <<p.userId,
      [i \in 1..Len(p.goals) |-> StringifyGoal(p.goals[i])],
      p.subjects,
      p.lastUpdated>>

Garbage == <<"{not json">>

Parses(text) == Len(text) = 4

\* A parser that forgets the completion flag.
ParseGoalUncompleted(t) ==
    [id |-> t[1], description |-> t[2], targetDate |-> t[3], completed |-> FALSE]

ParseGoal(t) ==
    [id |-> t[1], description |-> t[2], targetDate |-> t[3], completed |-> t[4]]

Parse(text) ==
    [userId |-> text[1],
     goals |-> [i \in 1..Len(text[2]) |-> ParseGoal(text[2][i])],
     subjects |-> text[3],
     lastUpdated |-> text[4]]

NoItem == [exists |-> FALSE, value |-> <<>>]

Item(text) == [exists |-> TRUE, value |-> text]

\* A plan left by an earlier session.
StoredPlan ==
    [userId |-> userId,
     goals |-> << [id |-> 0, description |-> <<"s">>, targetDate |-> null,
                   completed |-> TRUE] >>,
     subjects |-> << <<"B">> >>,
     lastUpdated |-> 0]

InitialItems == { NoItem, Item(<<>>), Item(Garbage), Item(Stringify(StoredPlan)) }

----------------------------------------------------------------------------
(* State updaters passed to setStudyPlan, and the values the handlers
   compute from the plan before calling it *)

\* A map that marks the goal completed instead of flipping its flag
CompletedGoals(goals, goalId) ==
    [i \in 1..Len(goals) |->
        IF goals[i].id = goalId THEN [goals[i] EXCEPT !.completed = TRUE] ELSE goals[i]]

\* goals.map(goal => goal.id === goalId ? {...goal, completed: !goal.completed} : goal)
ToggledGoals(goals, goalId) ==
    [i \in 1..Len(goals) |->
        IF goals[i].id = goalId THEN [goals[i] EXCEPT !.completed = ~@] ELSE goals[i]]

\* goals.filter(goal => goal.id !== goalId)
RemainingGoals(goals, goalId) == SelectSeq(goals, LAMBDA g : g.id # goalId)

\* subjects.filter(subject => subject !== subjectToDelete)
RemainingSubjects(subjects, subjectToDelete) ==
    SelectSeq(subjects, LAMBDA s : s # subjectToDelete)

\* [...(studyPlan?.subjects || []), newSubject.trim()]
AppendedSubjects(plan, name) ==
    Append(IF plan = NullPlan THEN <<>> ELSE plan.subjects, Trim(name))

\* A goal whose id does not depend on the generator
NewGoalConstantId(id, description, targetDate) ==
    [id |-> 1, description |-> Trim(description), targetDate |-> targetDate,
     completed |-> FALSE]

NewGoal(id, description, targetDate) ==
    [id |-> id, description |-> Trim(description), targetDate |-> targetDate,
     completed |-> FALSE]

\* An updater that puts the new goal first: [newGoal, ...currentPlan.goals]
AddGoalUpdaterPrepends(prevPlan, newGoal, now) ==
    LET currentPlan == CurrentPlan(prevPlan, now)
    IN [currentPlan EXCEPT !.goals = <<newGoal>> \o @, !.lastUpdated = now]

\* prevPlan => ({...currentPlan, goals: [...currentPlan.goals, newGoal], lastUpdated})
AddGoalUpdater(prevPlan, newGoal, now) ==
    LET currentPlan == CurrentPlan(prevPlan, now)
    IN [currentPlan EXCEPT !.goals = Append(@, newGoal), !.lastUpdated = now]

\* An updater that stamps the epoch instead of the current time
SetGoalsUpdaterEpoch(prevPlan, updatedGoals, now) ==
    LET currentPlan == CurrentPlan(prevPlan, now)
    IN [currentPlan EXCEPT !.goals = updatedGoals, !.lastUpdated = 0]

\* prevPlan => ({...currentPlan, goals: updatedGoals, lastUpdated})
SetGoalsUpdater(prevPlan, updatedGoals, now) ==
    LET currentPlan == CurrentPlan(prevPlan, now)
    IN [currentPlan EXCEPT !.goals = updatedGoals, !.lastUpdated = now]

\* prevPlan => ({...currentPlan, subjects: Array.from(new Set(updatedSubjects)), lastUpdated})
AddSubjectUpdater(prevPlan, updatedSubjects, now) ==
    LET currentPlan == CurrentPlan(prevPlan, now)
    IN [currentPlan EXCEPT !.subjects = Unique(updatedSubjects), !.lastUpdated = now]

\* An updater that builds the plan anew around the subjects
SetSubjectsUpdaterFromDefault(prevPlan, updatedSubjects, now) ==
    [DefaultPlan(now) EXCEPT !.subjects = updatedSubjects]

\* prevPlan => ({...currentPlan, subjects: updatedSubjects, lastUpdated})
SetSubjectsUpdater(prevPlan, updatedSubjects, now) ==
    LET currentPlan == CurrentPlan(prevPlan, now)
    IN [currentPlan EXCEPT !.subjects = updatedSubjects, !.lastUpdated = now]

----------------------------------------------------------------------------
(* History records *)

Step(op) ==
    [op |-> op, text |-> <<>>, date |-> "", id |-> 0, load |-> "",
     write |-> "none", threw |-> FALSE, returned |-> FALSE]

HasGoal(goals, id) == \E i \in 1..Len(goals) : goals[i].id = id

\* No toggleGoal call is being followed.
NoToggle == [stage |-> "none", id |-> 0, goals |-> <<>>]

\* toggleGoal(goalId) ran from a render that shows goals: it is the second
\* call of a pair when the last call was toggleGoal(goalId) and the component
\* has rendered since, and the first call of a pair when goalId is shown.
ToggledAfterCall(pair, goals, goalId) ==
    IF pair.stage = "rendered" /\ pair.id = goalId
    THEN [pair EXCEPT !.stage = "second"]
    ELSE IF HasGoal(goals, goalId)
         THEN [stage |-> "first", id |-> goalId, goals |-> goals]
         ELSE NoToggle

ToggledAfterRender(pair) ==
    IF pair.stage = "first" THEN [pair EXCEPT !.stage = "rendered"]
    ELSE IF pair.stage = "second" THEN NoToggle
    ELSE pair

----------------------------------------------------------------------------
(* LearnAI: flashcards, quiz and study buddy.  A quiz is the sequence of the
   correct option of each question; a deck and the chat history are kept by
   their lengths. *)

Endpoints == {"/api/flashcards", "/api/quiz", "/api/study-buddy"}

\* fetch rejects or response.json() throws; the body has the field; it has not
Outcomes == {"threw", "data", "noData"}

\* Text typed into notes, quizText and question
Notes == { <<" ">>, <<"n">> }

\* data.quiz
Quizzes == { <<>>, <<0>>, <<1, 0>> }

\* data.flashcards.length
Deck == 2

\* Index of the option buttons of a question
Options == {0, 1}

NoAnswer == -1                      \* JS null of selectedAnswer: number | null

InitialPage ==
    [requests |-> [endpoint \in Endpoints |-> 0],
     started |-> 0,
     flashcards |-> 0,
     chatHistory |-> 0,
     quiz |-> <<>>,
     currentQuestion |-> 0,
     selectedAnswer |-> NoAnswer,
     showResults |-> FALSE,
     score |-> 0,
     timers |-> <<>>,
     logged |-> 0]

----------------------------------------------------------------------------
(* Initial state: the cells as useState initialises them *)

Init ==
    /\ component \in {"LearnAI", "StudyPlanner"}
    /\ mounted = FALSE
    /\ studyPlan = NullPlan
    /\ loading = (component = "StudyPlanner")
    /\ studyPlannerError = null
    /\ view = [studyPlan |-> NullPlan, loading |-> loading, error |-> null]
    /\ dirty = FALSE
    /\ storage \in InitialItems
    /\ clock = 0
    /\ nextId = 1
    /\ calls = 0
    /\ lastWrite = "none"
    /\ step = Step("init")
    /\ reference = [fromDefault |-> FALSE, goalCallsOnly |-> TRUE, goals |-> <<>>,
                    subjects |-> <<>>]
    /\ toggled = NoToggle
    /\ page = InitialPage

----------------------------------------------------------------------------
(* Effects *)

\* What the load effect finds: getItem may throw, the item may be missing
\* or the empty string, and JSON.parse may throw.
LoadOutcome(item, readOk) ==
    IF ~readOk THEN "readError"
    ELSE IF item.exists /\ item.value # <<>>
         THEN (IF Parses(item.value) THEN "parsed" ELSE "parseError")
         ELSE "absent"

\* The plan cell after the load effect: setStudyPlan(JSON.parse(storedPlan)),
\* setStudyPlan(defaultPlan), or no call at all when the effect threw first.
PlanAfterLoad(plan, item, outcome, now) ==
    CASE outcome = "parsed" -> Parse(item.value)
      [] outcome = "absent" -> DefaultPlan(now)
      [] OTHER -> plan

\* A load effect that creates the default plan in memory only.
StorageAfterLoadNoWrite(item, outcome, writeOk, now) == item

\* The item after the load effect: only the default branch writes.
StorageAfterLoad(item, outcome, writeOk, now) ==
    IF outcome = "absent" /\ writeOk THEN Item(Stringify(DefaultPlan(now))) ELSE item

\* catch (e) { setStudyPlannerError("Failed to load ...") }
ErrorAfterLoad(error, outcome, writeOk) ==
    IF outcome \in {"readError", "parseError"} \/ (outcome = "absent" /\ ~writeOk)
    THEN LoadErrorMsg ELSE error

\* First render and the effects it schedules; the clock counts from here.  The save effect of the first
\* render sees studyPlan = null and does nothing.
Mount ==
    /\ ~mounted
    /\ mounted' = TRUE
    /\ view' = [studyPlan |-> studyPlan, loading |-> loading, error |-> studyPlannerError]
    /\ \E readOk \in BOOLEAN, writeOk \in BOOLEAN :
        LET outcome == LoadOutcome(storage, readOk)
        IN  /\ outcome # "absent" => writeOk
            /\ studyPlan' = PlanAfterLoad(studyPlan, storage, outcome, clock)
            /\ dirty' = (outcome \in {"parsed", "absent"})
            /\ storage' = StorageAfterLoad(storage, outcome, writeOk, clock)
            /\ studyPlannerError' = ErrorAfterLoad(studyPlannerError, outcome, writeOk)
            /\ lastWrite' = IF outcome = "absent"
                            THEN (IF writeOk THEN "ok" ELSE "failed") ELSE lastWrite
            /\ step' = [Step("mount") EXCEPT !.load = outcome,
                           !.write = IF outcome = "absent" THEN lastWrite' ELSE "none"]
            /\ reference' =
                  [fromDefault |-> outcome # "parsed",
                   goalCallsOnly |-> TRUE,
                   goals |-> IF outcome = "parsed" THEN Parse(storage.value).goals ELSE <<>>,
                   subjects |-> IF outcome = "parsed" THEN Parse(storage.value).subjects
                                ELSE <<>>]
    /\ loading' = IF component = "StudyPlanner" THEN FALSE ELSE loading
    /\ UNCHANGED <<component, clock, nextId, calls, toggled, page>>

\* The save effect runs after a commit in which one of its dependencies changed.
SaveEffectRuns ==
    IF component = "StudyPlanner" THEN dirty \/ loading # view.loading ELSE dirty

\* if (studyPlan) / if (studyPlan && !loading)
SaveEffectGuard ==
    /\ studyPlan # NullPlan
    /\ component = "StudyPlanner" => ~loading

\* A save effect that writes only while the key is missing.
SetItemOnlyWhenMissing(item, plan) ==
    IF item.exists THEN item ELSE Item(Stringify(plan))

\* localStorage.setItem(localStorageKey, JSON.stringify(studyPlan))
SetItem(item, plan) == Item(Stringify(plan))

\* A save effect whose catch block only logs.
ErrorAfterSaveSwallowed(error, writeOk) == error

\* A save effect that clears the error after a successful write
ErrorAfterSaveClears(error, writeOk) == IF writeOk THEN null ELSE SaveErrorMsg

\* catch (e) { setStudyPlannerError("Failed to save ...") }
ErrorAfterSave(error, writeOk) == IF writeOk THEN error ELSE SaveErrorMsg

\* A re-render commits the latest cells and runs the save effect.
Render ==
    /\ mounted
    /\ dirty \/ loading # view.loading \/ studyPlannerError # view.error
    /\ view' = [studyPlan |-> studyPlan, loading |-> loading, error |-> studyPlannerError]
    /\ dirty' = FALSE
    /\ IF SaveEffectRuns /\ SaveEffectGuard
       THEN \E writeOk \in BOOLEAN :
              /\ storage' = IF writeOk THEN SetItem(storage, studyPlan) ELSE storage
              /\ studyPlannerError' = ErrorAfterSave(studyPlannerError, writeOk)
              /\ lastWrite' = IF writeOk THEN "ok" ELSE "failed"
              /\ step' = [Step("render") EXCEPT !.write = lastWrite']
       ELSE /\ UNCHANGED <<storage, studyPlannerError, lastWrite>>
            /\ step' = Step("render")
    /\ toggled' = ToggledAfterRender(toggled)
    /\ UNCHANGED <<component, mounted, studyPlan, loading, clock, nextId, calls, reference,
                   page>>

Tick ==
    /\ mounted
    /\ clock < MaxClock
    /\ clock' = clock + 1
    /\ step' = Step("tick")
    /\ UNCHANGED <<component, mounted, studyPlan, loading, studyPlannerError, view,
                   dirty, storage, nextId, calls, lastWrite, reference, toggled, page>>

----------------------------------------------------------------------------
(* Handlers.  StudyPlanner renders the forms and lists only when it is
   neither loading nor in error (lines 1043-1054); LearnAI always does. *)

Interactive ==
    /\ mounted
    /\ component = "StudyPlanner" => (~view.loading /\ view.error = null)

CanInvoke == Interactive /\ calls < MaxCalls

handleAddGoal ==
    /\ CanInvoke
    /\ calls' = calls + 1
    /\ toggled' = NoToggle
    /\ \E form \in GoalForms :
        LET description == form[1]
            date == form[2]
            targetDate == TargetDateOf(date)
            newGoal == NewGoal(nextId, description, targetDate.value)
            call == [Step("addGoal") EXCEPT !.text = description, !.date = date]
        IN  IF Trim(description) = <<>>
            THEN /\ step' = [call EXCEPT !.returned = TRUE]
                 /\ UNCHANGED <<studyPlan, loading, studyPlannerError, dirty, nextId,
                                reference>>
            ELSE IF targetDate.threw
            THEN /\ studyPlannerError' = AddGoalErrorMsg
                 /\ loading' = FALSE
                 /\ step' = [call EXCEPT !.threw = TRUE]
                 /\ UNCHANGED <<studyPlan, dirty, nextId, reference>>
            ELSE /\ nextId <= MaxGoals
                 /\ studyPlan' = AddGoalUpdater(studyPlan, newGoal, clock)
                 /\ dirty' = TRUE
                 /\ nextId' = nextId + 1
                 /\ loading' = FALSE
                 /\ reference' = [reference EXCEPT !.goals = Append(@, newGoal)]
                 /\ step' = call
                 /\ UNCHANGED studyPlannerError
    /\ UNCHANGED <<component, mounted, view, storage, clock, lastWrite, page>>

handleToggleGoalCompletion ==
    /\ CanInvoke
    /\ calls' = calls + 1
    /\ \E goalId \in GoalIds :
        LET call == [Step("toggleGoal") EXCEPT !.id = goalId]
        IN  IF view.studyPlan = NullPlan
            THEN /\ step' = [call EXCEPT !.returned = TRUE]
                 /\ toggled' = NoToggle
                 /\ UNCHANGED <<studyPlan, loading, dirty, reference>>
            ELSE /\ studyPlan' = SetGoalsUpdater(studyPlan,
                                    ToggledGoals(view.studyPlan.goals, goalId), clock)
                 /\ toggled' = ToggledAfterCall(toggled, view.studyPlan.goals, goalId)
                 /\ dirty' = TRUE
                 /\ loading' = FALSE
                 /\ reference' = [reference EXCEPT !.goals = ToggledGoals(@, goalId)]
                 /\ step' = call
    /\ UNCHANGED <<component, mounted, studyPlannerError, view, storage, clock, nextId,
                   lastWrite, page>>

handleDeleteGoal ==
    /\ CanInvoke
    /\ calls' = calls + 1
    /\ toggled' = NoToggle
    /\ \E goalId \in GoalIds :
        LET call == [Step("deleteGoal") EXCEPT !.id = goalId]
        IN  IF view.studyPlan = NullPlan
            THEN /\ step' = [call EXCEPT !.returned = TRUE]
                 /\ UNCHANGED <<studyPlan, loading, dirty, reference>>
            ELSE /\ studyPlan' = SetGoalsUpdater(studyPlan,
                                    RemainingGoals(view.studyPlan.goals, goalId), clock)
                 /\ dirty' = TRUE
                 /\ loading' = FALSE
                 /\ reference' = [reference EXCEPT !.goals = RemainingGoals(@, goalId)]
                 /\ step' = call
    /\ UNCHANGED <<component, mounted, studyPlannerError, view, storage, clock, nextId,
                   lastWrite, page>>

handleAddSubject ==
    /\ CanInvoke
    /\ calls' = calls + 1
    /\ toggled' = NoToggle
    /\ \E newSubject \in SubjectNames :
        LET call == [Step("addSubject") EXCEPT !.text = newSubject]
        IN  IF Trim(newSubject) = <<>>
            THEN /\ step' = [call EXCEPT !.returned = TRUE]
                 /\ UNCHANGED <<studyPlan, loading, dirty, reference>>
            ELSE /\ studyPlan' = AddSubjectUpdater(studyPlan,
                                    AppendedSubjects(view.studyPlan, newSubject), clock)
                 /\ dirty' = TRUE
                 /\ loading' = FALSE
                 /\ reference' = [reference EXCEPT
                                    !.subjects = Unique(Append(@, Trim(newSubject))),
                                    !.goalCallsOnly = FALSE]
                 /\ step' = call
    /\ UNCHANGED <<component, mounted, studyPlannerError, view, storage, clock, nextId,
                   lastWrite, page>>

handleDeleteSubject ==
    /\ CanInvoke
    /\ calls' = calls + 1
    /\ toggled' = NoToggle
    /\ \E subjectToDelete \in SubjectsToDelete :
        LET call == [Step("deleteSubject") EXCEPT !.text = subjectToDelete]
        IN  IF view.studyPlan = NullPlan
            THEN /\ step' = [call EXCEPT !.returned = TRUE]
                 /\ UNCHANGED <<studyPlan, loading, dirty, reference>>
            ELSE /\ studyPlan' = SetSubjectsUpdater(studyPlan,
                                    RemainingSubjects(view.studyPlan.subjects,
                                                      subjectToDelete), clock)
                 /\ dirty' = TRUE
                 /\ loading' = FALSE
                 /\ reference' = [reference EXCEPT
                                    !.subjects = RemainingSubjects(@, subjectToDelete),
                                    !.goalCallsOnly = FALSE]
                 /\ step' = call
    /\ UNCHANGED <<component, mounted, studyPlannerError, view, storage, clock, nextId,
                   lastWrite, page>>

----------------------------------------------------------------------------

Next ==
    \/ Mount
    \/ Render
    \/ Tick
    \/ handleAddGoal
    \/ handleToggleGoalCompletion
    \/ handleDeleteGoal
    \/ handleAddSubject
    \/ handleDeleteSubject

Spec == Init /\ [][Next]_vars

TypeOK ==
    /\ component \in {"LearnAI", "StudyPlanner"}
    /\ mounted \in BOOLEAN
    /\ loading \in BOOLEAN
    /\ dirty \in BOOLEAN
    /\ clock \in 0..MaxClock
    /\ nextId \in 1..(MaxGoals + 1)
    /\ calls \in 0..MaxCalls
    /\ lastWrite \in {"none", "ok", "failed"}
    /\ studyPlan # NullPlan => studyPlan.lastUpdated \in 0..MaxClock

----------------------------------------------------------------------------
(* LearnAI: requests to the AI endpoints and the quiz.  A request is sent by
   its handler and answered in a later step, after the await; the advance of
   the quiz is the callback that selectAnswer hands to setTimeout. *)

\* The three forms disable their button while loading is true.  The page's
\* own cells are read as of the call: a re-render follows every event and
\* every response before the next one is handled.
CanSend ==
    /\ mounted
    /\ component = "LearnAI"
    /\ ~loading
    /\ page.started < MaxRequests

Sent(p, endpoint) ==
    [p EXCEPT !.requests[endpoint] = @ + 1, !.started = @ + 1]

Answered(p, endpoint) ==
    [p EXCEPT !.requests[endpoint] = @ - 1]

\* catch (error) { console.error(...) }
LoggedAfterRequest(logged, outcome) ==
    IF outcome = "threw" THEN logged + 1 ELSE logged

\* A catch block that also reports the failure in the planner's error cell
ErrorAfterRequestReported(error, outcome) ==
    IF outcome = "threw" THEN "Failed to reach the AI endpoint." ELSE error

\* The catch blocks of the three requests leave studyPlannerError alone.
ErrorAfterRequest(error, outcome) == error

generateFlashcards ==
    /\ CanSend
    /\ page.flashcards = 0
    /\ \E notes \in Notes :
        IF Trim(notes) = <<>>
        THEN UNCHANGED <<loading, page>>
        ELSE /\ loading' = TRUE
             /\ page' = Sent(page, "/api/flashcards")
    /\ UNCHANGED <<component, mounted, studyPlan, studyPlannerError, view, dirty, storage,
                   clock, nextId, calls, lastWrite, step, reference, toggled>>

flashcardsResponse ==
    /\ page.requests["/api/flashcards"] > 0
    /\ \E outcome \in Outcomes :
        /\ page' = [Answered(page, "/api/flashcards") EXCEPT
                        !.flashcards = IF outcome = "data" THEN Deck ELSE @,
                        !.logged = LoggedAfterRequest(@, outcome)]
        /\ studyPlannerError' = ErrorAfterRequest(studyPlannerError, outcome)
    /\ loading' = FALSE
    /\ UNCHANGED <<component, mounted, studyPlan, view, dirty, storage, clock, nextId,
                   calls, lastWrite, step, reference, toggled>>

generateQuiz ==
    /\ CanSend
    /\ page.quiz = <<>>
    /\ ~page.showResults
    /\ \E quizText \in Notes :
        IF Trim(quizText) = <<>>
        THEN UNCHANGED <<loading, page>>
        ELSE /\ loading' = TRUE
             /\ page' = Sent(page, "/api/quiz")
    /\ UNCHANGED <<component, mounted, studyPlan, studyPlannerError, view, dirty, storage,
                   clock, nextId, calls, lastWrite, step, reference, toggled>>

quizResponse ==
    /\ page.requests["/api/quiz"] > 0
    /\ \E outcome \in Outcomes, data \in Quizzes :
        /\ outcome # "data" => data = <<>>
        /\ page' = IF outcome = "data"
                   THEN [Answered(page, "/api/quiz") EXCEPT
                            !.quiz = data,
                            !.currentQuestion = 0,
                            !.selectedAnswer = NoAnswer,
                            !.showResults = FALSE,
                            !.score = 0]
                   ELSE [Answered(page, "/api/quiz") EXCEPT
                            !.logged = LoggedAfterRequest(@, outcome)]
        /\ studyPlannerError' = ErrorAfterRequest(studyPlannerError, outcome)
    /\ loading' = FALSE
    /\ UNCHANGED <<component, mounted, studyPlan, view, dirty, storage, clock, nextId,
                   calls, lastWrite, step, reference, toggled>>

askStudyBuddy ==
    /\ CanSend
    /\ \E question \in Notes :
        IF Trim(question) = <<>>
        THEN UNCHANGED <<loading, page>>
        ELSE /\ loading' = TRUE
             /\ page' = Sent(page, "/api/study-buddy")
    /\ UNCHANGED <<component, mounted, studyPlan, studyPlannerError, view, dirty, storage,
                   clock, nextId, calls, lastWrite, step, reference, toggled>>

studyBuddyResponse ==
    /\ page.requests["/api/study-buddy"] > 0
    /\ \E outcome \in Outcomes :
        /\ page' = [Answered(page, "/api/study-buddy") EXCEPT
                        !.chatHistory = IF outcome = "data" THEN @ + 1 ELSE @,
                        !.logged = LoggedAfterRequest(@, outcome)]
        /\ studyPlannerError' = ErrorAfterRequest(studyPlannerError, outcome)
    /\ loading' = FALSE
    /\ UNCHANGED <<component, mounted, studyPlan, view, dirty, storage, clock, nextId,
                   calls, lastWrite, step, reference, toggled>>

\* The option buttons exist in the question view, one per option of
\* quiz[currentQuestion], and are disabled once an answer is selected.
selectAnswer ==
    /\ mounted
    /\ component = "LearnAI"
    /\ page.quiz # <<>>
    /\ ~page.showResults
    /\ page.currentQuestion < Len(page.quiz)
    /\ page.selectedAnswer = NoAnswer
    /\ \E answerIndex \in Options :
        LET quiz == page.quiz
            currentQuestion == page.currentQuestion
            score == page.score
            callback == [currentQuestion |-> currentQuestion, length |-> Len(quiz)]
        IN  /\ page' = [page EXCEPT
                            !.selectedAnswer = answerIndex,
                            !.score = IF answerIndex = quiz[currentQuestion + 1]
                                      THEN score + 1 ELSE @,
                            !.timers = Append(@, callback)]
        /\ UNCHANGED <<component, mounted, studyPlan, loading, studyPlannerError, view, dirty,
                   storage, clock, nextId, calls, lastWrite, step, reference, toggled>>

\* The callback of setTimeout(..., 1500): the timers have one delay, so the
\* oldest pending callback runs first, with the cells its render closed over.
advanceQuestion ==
    /\ page.timers # <<>>
    /\ LET callback == Head(page.timers)
       IN  page' = IF callback.currentQuestion < callback.length - 1
                   THEN [page EXCEPT !.currentQuestion = callback.currentQuestion + 1,
                                     !.selectedAnswer = NoAnswer,
                                     !.timers = Tail(@)]
                   ELSE [page EXCEPT !.showResults = TRUE, !.timers = Tail(@)]
    /\ UNCHANGED <<component, mounted, studyPlan, loading, studyPlannerError, view, dirty,
                   storage, clock, nextId, calls, lastWrite, step, reference, toggled>>

\* onClick of "Take Another Quiz", rendered while the results are shown
takeAnotherQuiz ==
    /\ mounted
    /\ component = "LearnAI"
    /\ page.showResults
    /\ page' = [page EXCEPT !.quiz = <<>>, !.showResults = FALSE, !.score = 0]
    /\ UNCHANGED <<component, mounted, studyPlan, loading, studyPlannerError, view, dirty,
                   storage, clock, nextId, calls, lastWrite, step, reference, toggled>>

InitPage ==
    /\ Init
    /\ component = "LearnAI"

NextPage ==
    \/ Mount
    \/ Render
    \/ handleToggleGoalCompletion
    \/ generateFlashcards
    \/ flashcardsResponse
    \/ generateQuiz
    \/ quizResponse
    \/ askStudyBuddy
    \/ studyBuddyResponse
    \/ selectAnswer
    \/ advanceQuestion
    \/ takeAnotherQuiz

SpecPage == InitPage /\ [][NextPage]_vars

----------------------------------------------------------------------------
(* Properties *)

\* const currentGoals = studyPlan?.goals || []
currentGoals == IF studyPlan = NullPlan THEN <<>> ELSE studyPlan.goals

\* No re-render is pending: the handlers close over the latest cells.
Quiescent ==
    /\ mounted
    /\ ~dirty
    /\ view.loading = loading
    /\ view.error = studyPlannerError

\* Text that consists of white space only.
IsBlank(text) == \A i \in 1..Len(text) : text[i] = " "

\* C1: after any sequence of addGoal / deleteGoal / toggleGoal calls that
\* starts from the empty default plan, goals is exactly the goals added and
\* not deleted, in insertion order, each with completed equal to the parity
\* of the toggles made against it.
C1_GoalsAreAddedMinusDeleted ==
    (mounted /\ reference.fromDefault /\ reference.goalCallsOnly)
        => currentGoals = reference.goals

\* C2: every mutation is applied to the latest plan, so that two mutations
\* issued without a re-render between them are both reflected in the plan.
C2_NoLostUpdate ==
    (mounted /\ studyPlan # NullPlan)
        => /\ studyPlan.goals = reference.goals
           /\ studyPlan.subjects = reference.subjects

\* C3: when no re-render is pending and the last write to storage succeeded,
\* the stored item is the serialization of the whole in-memory plan.
C3_MirrorEqualsPlan ==
    (mounted /\ ~dirty /\ studyPlan # NullPlan /\ lastWrite = "ok")
        => storage = Item(Stringify(studyPlan))

C3_Witness ==
    /\ step.op = "render"
    /\ step.write = "ok"
    /\ calls > 0
    /\ studyPlan # NullPlan
    /\ studyPlan.goals # <<>>
    /\ studyPlan.subjects # <<>>

\* C4 as stated: with no stored plan, initialization leaves the default plan
\* in memory and in storage before any handler can run.
C4_DefaultPersistedAtInit ==
    (step.op = "mount" /\ step.load = "absent")
        => /\ studyPlan = DefaultPlan(clock)
           /\ storage = Item(Stringify(studyPlan))

\* C4 as amended: with no stored plan, initialization leaves the default plan
\* in memory before any handler can run; the plan is in storage as well when
\* the write succeeded, and when the write threw the load error is set and
\* storage holds no plan.
C4_DefaultAdoptedAndWritten ==
    /\ ~mounted => (calls = 0 /\ studyPlan = NullPlan)
    /\ (step.op = "mount" /\ step.load = "absent")
        => /\ calls = 0
           /\ studyPlan = DefaultPlan(clock)
           /\ step.write = "ok" => storage = Item(Stringify(studyPlan))
           /\ step.write = "failed"
                => /\ studyPlannerError = LoadErrorMsg
                   /\ storage \in {NoItem, Item(<<>>)}

C4_Witness ==
    /\ step.op = "mount"
    /\ step.load = "absent"
    /\ step.write = "ok"
    /\ storage.exists

\* C5: when the stored text does not parse, initialization adopts a default
\* plan, writes it to storage at once and sets the load error.
C5_ParseFailureFallsBackToDefault ==
    (step.op = "mount" /\ step.load = "parseError")
        => /\ studyPlan = DefaultPlan(clock)
           /\ storage = Item(Stringify(studyPlan))
           /\ studyPlannerError = LoadErrorMsg

\* C6: a stored plan that parses is adopted as it is, and initialization,
\* the save effect of the following render included, leaves the stored plan
\* as it was.
C6_StoredPlanAdoptedUnchanged ==
    (mounted /\ calls = 0 /\ ~reference.fromDefault)
        => /\ studyPlan = StoredPlan
           /\ storage = Item(Stringify(StoredPlan))
           /\ Parse(storage.value) = StoredPlan

C6_Witness ==
    /\ step.op = "render"
    /\ step.write = "ok"
    /\ calls = 0
    /\ ~reference.fromDefault

\* C7: a save that fails sets the save error, leaves the in-memory plan as
\* the mutation made it and leaves the stored item as it was.
C7_FailedSaveKeepsPlan ==
    [][ (step'.op = "render" /\ step'.write = "failed")
            => /\ studyPlannerError' = SaveErrorMsg
               /\ studyPlan' = studyPlan
               /\ storage' = storage ]_vars

C7_Witness ==
    /\ step.op = "render"
    /\ step.write = "failed"
    /\ calls > 0
    /\ studyPlan # NullPlan
    /\ storage # Item(Stringify(studyPlan))

\* C8: once an error has been set and rendered, the handlers can still be
\* invoked.
C8_NoErrorIsFatal ==
    (Quiescent /\ studyPlannerError # null) => Interactive

\* C9: addGoal with a description that is not blank adds a goal that is not
\* completed and whose targetDate is the ISO string of a parseable date and
\* null for an omitted or unparseable one.
C9_TargetDateIsoOrNull ==
    (step.op = "addGoal" /\ ~IsBlank(step.text))
        => /\ currentGoals # <<>>
           /\ LET goal == currentGoals[Len(currentGoals)]
              IN  /\ goal.id = nextId - 1
                  /\ goal.completed = FALSE
                  /\ goal.targetDate = IF step.date \in ParseableDates
                                       THEN toISOString(step.date) ELSE null

\* C10: addGoal with a blank description and addSubject with a blank name
\* change neither the plan, nor the stored item, nor the error.
C10_BlankInputIsNoop ==
    [][ (step'.op \in {"addGoal", "addSubject"} /\ IsBlank(step'.text))
            => UNCHANGED <<studyPlan, storage, studyPlannerError>> ]_vars

C10_Witness ==
    /\ step.op \in {"addGoal", "addSubject"}
    /\ step.text = <<" ">>
    /\ studyPlan # NullPlan
    /\ studyPlan.lastUpdated < clock

\* studyPlan?.subjects || []
currentSubjects == IF studyPlan = NullPlan THEN <<>> ELSE studyPlan.subjects

Spaces(n) == [k \in 1..n |-> " "]

\* trimmed is text without its leading and trailing white space.
IsTrimOf(trimmed, text) ==
    /\ trimmed # <<>> => (trimmed[1] # " " /\ trimmed[Len(trimmed)] # " ")
    /\ \E i, j \in 0..Len(text) : text = Spaces(i) \o trimmed \o Spaces(j)

\* C11: an addGoal that succeeds appends exactly one goal, not completed and
\* with the trimmed description, after the goals the plan had, which keep
\* their positions and fields; lastUpdated becomes the current time.
C11_AddGoalAppendsOne ==
    [][ (step'.op = "addGoal" /\ ~step'.returned /\ ~step'.threw)
            => /\ studyPlan' # NullPlan
               /\ Len(studyPlan'.goals) = Len(currentGoals) + 1
               /\ SubSeq(studyPlan'.goals, 1, Len(currentGoals)) = currentGoals
               /\ LET goal == studyPlan'.goals[Len(studyPlan'.goals)]
                  IN  /\ IsTrimOf(goal.description, step'.text)
                      /\ goal.description # <<>>
                      /\ goal.completed = FALSE
               /\ studyPlan'.lastUpdated = clock' ]_vars

C11_Witness ==
    /\ step.op = "addGoal"
    /\ ~step.returned
    /\ ~step.threw
    /\ Len(currentGoals) >= 2
    /\ view.studyPlan # studyPlan
    /\ studyPlan.lastUpdated > 0

\* C12: toggleGoal with an id that no goal of the plan has leaves the plan
\* (goals, subjects, lastUpdated) as it was; with an id that a goal has, it
\* flips the completed flag of that goal and changes no other goal.
C12_ToggleFlipsOnlyMatch ==
    [][ (step'.op = "toggleGoal" /\ ~step'.returned)
            => IF HasGoal(currentGoals, step'.id)
               THEN /\ studyPlan' # NullPlan
                    /\ studyPlan'.goals = ToggledGoals(currentGoals, step'.id)
               ELSE studyPlan' = studyPlan ]_vars

\* C14: deleteGoal removes the goal that has the id and leaves every other
\* goal of the plan with its fields and in its relative order; when no goal
\* has the id the goals are unchanged.
C14_DeleteGoalRemovesOnlyMatch ==
    [][ (step'.op = "deleteGoal" /\ ~step'.returned)
            => /\ studyPlan' # NullPlan
               /\ ~HasGoal(studyPlan'.goals, step'.id)
               /\ studyPlan'.goals
                    = SelectSeq(currentGoals, LAMBDA goal : goal.id # step'.id) ]_vars

\* C15: addSubject with a name that does not trim to empty yields the
\* subjects the plan had, in their order, followed by the trimmed name iff
\* the plan did not have it already.
C15_AddSubjectAppendsIfAbsent ==
    [][ (step'.op = "addSubject" /\ ~IsBlank(step'.text))
            => /\ studyPlan' # NullPlan
               /\ \E name \in { Trim(t) : t \in SubjectNames } :
                    /\ IsTrimOf(name, step'.text)
                    /\ studyPlan'.subjects
                         = IF \E i \in 1..Len(currentSubjects) : currentSubjects[i] = name
                           THEN currentSubjects
                           ELSE Append(currentSubjects, name) ]_vars

\* C16: deleteSubject removes the subject equal to the name, case included,
\* and leaves every other subject of the plan in place and in order; a name
\* that differs in case from every subject removes nothing.
C16_DeleteSubjectRemovesExactMatch ==
    [][ (step'.op = "deleteSubject" /\ ~step'.returned)
            => /\ studyPlan' # NullPlan
               /\ studyPlan'.subjects
                    = SelectSeq(currentSubjects, LAMBDA subject : subject # step'.text) ]_vars

NoDuplicates(xs) == \A i, j \in 1..Len(xs) : xs[i] = xs[j] => i = j

\* C17: in every reachable state the subjects of the in-memory plan contain
\* no string twice, whatever subject and goal operations have been applied
\* to a default plan or to a stored plan without duplicates.
C17_SubjectsHaveNoDuplicates ==
    NoDuplicates(currentSubjects)

C17_Witness ==
    /\ step.op = "addSubject"
    /\ step.text = <<"B">>
    /\ view.studyPlan # NullPlan
    /\ view.studyPlan.subjects = << <<"B">> >>
    /\ currentSubjects = << <<"B">> >>

\* C18: in every reachable state the goals of the in-memory plan have
\* pairwise distinct ids, and every id in use is older than the next id the
\* generator hands out, so that no later goal gets the id of an earlier one,
\* deleted or not.
C18_GoalIdsDistinctAndNotReused ==
    /\ NoDuplicates([i \in 1..Len(currentGoals) |-> currentGoals[i].id])
    /\ \A i \in 1..Len(currentGoals) : currentGoals[i].id < nextId
    /\ view.studyPlan # NullPlan
         => \A i \in 1..Len(view.studyPlan.goals) : view.studyPlan.goals[i].id < nextId

C18_Witness ==
    /\ step.op = "addGoal"
    /\ ~step.returned
    /\ ~step.threw
    /\ reference.fromDefault
    /\ nextId = 3
    /\ Len(currentGoals) = 1
    /\ currentGoals[1].id = 2

\* C19: lastUpdated of the plan never decreases from one state to the next:
\* every mutation stamps a time that is at least the time the plan carried,
\* the time adopted from a stored plan included.
C19_LastUpdatedNeverDecreases ==
    [][ (studyPlan # NullPlan)
            => /\ studyPlan' # NullPlan
               /\ studyPlan'.lastUpdated >= studyPlan.lastUpdated ]_vars

C19_Witness ==
    /\ step.op \in {"toggleGoal", "deleteGoal"}
    /\ ~step.returned
    /\ ~reference.fromDefault
    /\ view.studyPlan # NullPlan
    /\ view.studyPlan.lastUpdated = 0
    /\ studyPlan.lastUpdated = 1

\* The derived values a render computes from its studyPlan.  A quotient is
\* kept as the pair of its numerator and denominator; den = 0 is the NaN of
\* a division of 0 by 0.
Percent == 100

\* studyPlan?.goals || []
GoalsOf(plan) == IF plan = NullPlan THEN <<>> ELSE plan.goals

\* currentGoals.filter(g => !g.completed)
incompleteGoals(plan) == SelectSeq(GoalsOf(plan), LAMBDA g : ~g.completed)

\* currentGoals.filter(g => g.completed)
completedGoals(plan) == SelectSeq(GoalsOf(plan), LAMBDA g : g.completed)

completedGoalsCount(plan) == Len(completedGoals(plan))

totalGoalsCount(plan) == Len(GoalsOf(plan))

\* (completedGoalsCount / totalGoalsCount) * 100 without the guard
ProgressWidthUnguarded(plan) ==
    [num |-> completedGoalsCount(plan) * Percent, den |-> totalGoalsCount(plan)]

\* totalGoalsCount > 0 ? (completedGoalsCount / totalGoalsCount) * 100 : 0
progressWidth(plan) ==
    IF totalGoalsCount(plan) > 0
    THEN [num |-> completedGoalsCount(plan) * Percent, den |-> totalGoalsCount(plan)]
    ELSE [num |-> 0, den |-> 1]

\* sub is the subsequence of the elements of goals whose flag is completed.
IsSelectionOf(sub, goals, completed) ==
    \E pick \in [1..Len(sub) -> 1..Len(goals)] :
        /\ \A i, j \in 1..Len(sub) : i < j => pick[i] < pick[j]
        /\ \A i \in 1..Len(sub) : sub[i] = goals[pick[i]]
        /\ \A k \in 1..Len(goals) :
               (goals[k].completed = completed) <=> (\E i \in 1..Len(sub) : pick[i] = k)

DerivedFrom(plan) ==
    LET goals == IF plan = NullPlan THEN <<>> ELSE plan.goals
        done  == Cardinality({ k \in 1..Len(goals) : goals[k].completed })
        width == progressWidth(plan)
    IN  /\ width.den > 0
        /\ width.num >= 0
        /\ width.num <= 100 * width.den
        /\ goals = <<>> => width.num = 0
        /\ goals # <<>> => width.num * Len(goals) = 100 * done * width.den
        /\ completedGoalsCount(plan) = done
        /\ totalGoalsCount(plan) = Len(goals)
        /\ done <= Len(goals)
        /\ IsSelectionOf(incompleteGoals(plan), goals, FALSE)
        /\ IsSelectionOf(completedGoals(plan), goals, TRUE)

\* C20: in every state the progress value is derived from the goals of the
\* plan: 0 for a null plan or an empty goal list, otherwise 100 times
\* completed count over total count with 0 <= completed <= total, hence in
\* [0,100]; incompleteGoals and completedGoals are exactly the goals whose
\* completed flag is false and true.
C20_ProgressDerivedFromGoals ==
    /\ DerivedFrom(view.studyPlan)
    /\ DerivedFrom(studyPlan)

C20_Witness ==
    /\ view.studyPlan = studyPlan
    /\ studyPlan # NullPlan
    /\ Len(studyPlan.goals) = 2
    /\ completedGoalsCount(studyPlan) = 1
    /\ Len(incompleteGoals(studyPlan)) = 1
    /\ progressWidth(studyPlan) = [num |-> 100, den |-> 2]

SamePlan(back, plan) ==
    /\ back.userId = plan.userId
    /\ back.lastUpdated = plan.lastUpdated
    /\ Len(back.goals) = Len(plan.goals)
    /\ \A i \in 1..Len(plan.goals) :
         /\ back.goals[i].id = plan.goals[i].id
         /\ back.goals[i].description = plan.goals[i].description
         /\ back.goals[i].targetDate = plan.goals[i].targetDate
         /\ back.goals[i].completed = plan.goals[i].completed
    /\ Len(back.subjects) = Len(plan.subjects)
    /\ \A i \in 1..Len(plan.subjects) : back.subjects[i] = plan.subjects[i]

RoundTrips(plan) ==
    plan # NullPlan
        => /\ Parses(Stringify(plan))
           /\ SamePlan(Parse(Stringify(plan)), plan)

C23_GoalAndSubjectOpsAreFramed ==
    [][ /\ step'.op \in {"addGoal", "toggleGoal", "deleteGoal"}
            => currentSubjects' = currentSubjects
        /\ step'.op \in {"addSubject", "deleteSubject"}
            => currentGoals' = currentGoals
        /\ step'.op \in {"addGoal", "toggleGoal", "deleteGoal", "addSubject", "deleteSubject"}
            => /\ studyPlan # NullPlan => studyPlan' # NullPlan
               /\ studyPlan' # NullPlan => studyPlan'.userId = "localUser123" ]_vars

C23_Witness ==
    /\ step.op = "deleteSubject"
    /\ ~step.returned
    /\ view.studyPlan # NullPlan
    /\ Len(currentGoals) > Len(view.studyPlan.goals)

\* C26: once the planner error is set, by a failed load, a failed save or an
\* exception in a handler, no later step sets it back to null, a successful
\* mutation followed by a successful save included.
C26_PlannerErrorIsSticky ==
    [][ studyPlannerError # null => studyPlannerError' # null ]_vars

C26_Witness ==
    /\ studyPlannerError # null
    /\ view.error # null
    /\ view.studyPlan # NullPlan
    /\ view.studyPlan # studyPlan
    /\ step.op = "addSubject"
    /\ ~step.returned
    /\ lastWrite = "ok"

InFlight ==
    page.requests["/api/flashcards"] + page.requests["/api/quiz"]
        + page.requests["/api/study-buddy"]

\* C22: a request to one of the three AI endpoints, when it is sent and when
\* it is answered, with data, without data or with an exception, leaves the
\* in-memory plan, the stored item and the planner error as they were; a
\* request that fails with an exception is logged and changes no cell of the
\* flashcards, the quiz or the chat.
C22_RequestsLeavePlanAlone ==
    [][ page'.requests # page.requests
            => /\ studyPlan' = studyPlan
               /\ storage' = storage
               /\ studyPlannerError' = studyPlannerError
               /\ page'.logged # page.logged
                    => /\ page'.logged = page.logged + 1
                       /\ page'.flashcards = page.flashcards
                       /\ page'.quiz = page.quiz
                       /\ page'.currentQuestion = page.currentQuestion
                       /\ page'.score = page.score
                       /\ page'.chatHistory = page.chatHistory ]_vars

C22_Witness ==
    /\ page.logged > 0
    /\ page.chatHistory > 0
    /\ InFlight = 0
    /\ studyPlan # NullPlan
    /\ studyPlan.goals # <<>>
    /\ storage.exists
    /\ Parses(storage.value)
    /\ Parse(storage.value) = studyPlan
    /\ studyPlannerError = null

\* C24: whenever a quiz is loaded and the results are not shown, the current
\* question is a question of the quiz, in every interleaving of quiz
\* responses, selected answers and the delayed advance.
C24_CurrentQuestionInRange ==
    (page.quiz # <<>> /\ ~page.showResults)
        => /\ 0 <= page.currentQuestion
           /\ page.currentQuestion < Len(page.quiz)

\* C25: in LearnAI loading is true in every state in which a request to an
\* AI endpoint is in flight, and false when none is.
C25_LoadingWhileInFlight ==
    /\ InFlight > 0 => loading
    /\ InFlight = 0 => ~loading

====
